---- MODULE Spec2Model ----
(***************************************************************************)
(* The conversation loader of dlt_embeddings:                              *)
(*   sources/conversations_embeddings_source.py                            *)
(*     extract_conversation_text        (the walk over a mapping's nodes)  *)
(*     conversations_with_embeddings    (the source and its generator)     *)
(*     conversations_simple             (the source without embeddings)    *)
(* and its similarity search:                                              *)
(*   query.py   VectorSearch.search_sync, VectorSearch.search_async        *)
(*   db.py      get_sync_session, get_async_session, the lazy globals      *)
(*   api.py     search, search_get, get_vector_searcher                    *)
(*                                                                         *)
(* Specifications, over one set of variables:                              *)
(*   Spec         one run of a loader                                      *)
(*   SearchSpec   one call of search_sync                                  *)
(*   PairSpec     search_sync, then search_async, on one table             *)
(*   SessionSpec  one use of a session context manager                     *)
(*   ApiSpec      one HTTP search request                                  *)
(*   ConcSpec     interleaved HTTP requests and the module globals         *)
(***************************************************************************)
EXTENDS Integers, Sequences, FiniteSets, TLC

(***************************************************************************)
(* Bounds of the inputs.                                                   *)
(***************************************************************************)
MaxParts == 2
MaxNodes == 2
MaxConversations == 2
MaxBatch == 2
MaxDim == 2
MaxRows == 3
MaxStatements == 2
MaxRequests == 3

(***************************************************************************)
(* Python / JSON values.  A str is a sequence of symbols; the symbol " "   *)
(* is whitespace, every other symbol is a run of non-whitespace            *)
(* characters.  A dict keeps its items in insertion order.                 *)
(***************************************************************************)
None == [t |-> "none"]
Str(s) == [t |-> "str", s |-> s]
Num(n) == [t |-> "int", n |-> n]
List(l) == [t |-> "list", l |-> l]
Dict(items) == [t |-> "dict", items |-> items]

\* bool(v): None, "", 0, [] and {} are falsy
Truthy(v) ==
    CASE v.t = "none" -> FALSE
      [] v.t = "str"  -> v.s # <<>>
      [] v.t = "int"  -> v.n # 0
      [] v.t = "list" -> v.l # <<>>
      [] v.t = "dict" -> v.items # <<>>

\* v.get / v.items exist on a dict only; on anything else: AttributeError
IsDict(v) == v.t = "dict"

HasKey(d, k) == \E i \in 1..Len(d.items) : d.items[i][1] = k

\* d.get(k, default)
Get(d, k, default) ==
    IF HasKey(d, k)
    THEN d.items[CHOOSE i \in 1..Len(d.items) : d.items[i][1] = k][2]
    ELSE default

\* iter(v) works for a list (its elements) and a str (its characters)
Iterable(v) == v.t \in {"list", "str"}

Iter(v) ==
    IF v.t = "list" THEN v.l
    ELSE [i \in 1..Len(v.s) |-> Str(<<v.s[i]>>)]

\* str(v) of a scalar or of an empty container
PyStr(v) ==
    CASE v.t = "str"  -> v.s
      [] v.t = "int"  -> <<ToString(v.n)>>
      [] v.t = "none" -> <<"None">>
      [] v.t = "list" /\ v.l = <<>> -> <<"[]">>
      [] v.t = "dict" /\ v.items = <<>> -> <<"{}">>

RECURSIVE Join(_, _)
\* sep.join(strs)
Join(sep, strs) ==
    IF strs = <<>> THEN <<>>
    ELSE IF Len(strs) = 1 THEN strs[1]
    ELSE strs[1] \o sep \o Join(sep, Tail(strs))

RECURSIVE LStrip(_)
LStrip(s) == IF s # <<>> /\ s[1] = " " THEN LStrip(Tail(s)) ELSE s

RECURSIVE RStrip(_)
RStrip(s) ==
    IF s # <<>> /\ s[Len(s)] = " " THEN RStrip(SubSeq(s, 1, Len(s) - 1)) ELSE s

\* s.strip()
Strip(s) == RStrip(LStrip(s))

\* s.strip(chars) and s.split(sep)
RECURSIVE LStripChars(_, _)
LStripChars(s, chars) ==
    IF s # <<>> /\ Head(s) \in chars THEN LStripChars(Tail(s), chars) ELSE s
RECURSIVE RStripChars(_, _)
RStripChars(s, chars) ==
    IF s # <<>> /\ s[Len(s)] \in chars
    THEN RStripChars(SubSeq(s, 1, Len(s) - 1), chars) ELSE s
StripChars(s, chars) == RStripChars(LStripChars(s, chars), chars)
RECURSIVE Split(_, _)
Split(s, sep) ==
    IF \E i \in 1..Len(s) : s[i] = sep
    THEN LET i == CHOOSE i \in 1..Len(s) :
                      s[i] = sep /\ \A j \in 1..(i - 1) : s[j] # sep
         IN  <<SubSeq(s, 1, i - 1)>> \o Split(SubSeq(s, i + 1, Len(s)), sep)
    ELSE <<s>>

(***************************************************************************)
(* extract_conversation_text: the body of the loop over mapping.items().   *)
(***************************************************************************)
Skip == [kind |-> "skip"]
Raise(exc) == [kind |-> "raise", exc |-> exc]
Emit(msg) == [kind |-> "emit", msg |-> msg]

\* the join without its filter: " ".join(str(part) for part in parts)
PartsTextUnfiltered(parts) ==
    Join(<<" ">>, [i \in 1..Len(Iter(parts)) |-> PyStr(Iter(parts)[i])])

\* line 43: " ".join(str(part) for part in parts if part)
PartsText(parts) ==
    LET kept == SelectSeq(Iter(parts), Truthy)
    IN  Join(<<" ">>, [i \in 1..Len(kept) |-> PyStr(kept[i])])

\* the lookup without its default: conversation.get("mapping")
MappingOfNoDefault(conversation) == Get(conversation, "mapping", None)

\* line 25: conversation.get("mapping", {})
MappingOf(conversation) == Get(conversation, "mapping", Dict(<<>>))

\* line 52
ConversationId(conversation) == Get(conversation, "title", Str(<<"unknown">>))

\* line 53
MessageId(message, node_id) == Get(message, "id", Str(<<node_id>>))

\* line 49
Role(author) == Get(author, "role", Str(<<"unknown">>))

\* the appended dict with the text as joined: "text": text
MakeMessageUnstripped(conversation, node_id, message, role, text) ==
    [conversation_id |-> ConversationId(conversation),
     message_id      |-> MessageId(message, node_id),
     role            |-> role,
     text            |-> Str(text),
     create_time     |-> Get(message, "create_time", None),
     update_time     |-> Get(message, "update_time", None)]

\* lines 51-58: the appended dict
MakeMessage(conversation, node_id, message, role, text) ==
    [conversation_id |-> ConversationId(conversation),
     message_id      |-> MessageId(message, node_id),
     role            |-> role,
     text            |-> Str(Strip(text)),
     create_time     |-> Get(message, "create_time", None),
     update_time     |-> Get(message, "update_time", None)]

\* lines 28-58: one iteration
NodeStep(conversation, node_id, node) ==
    IF ~IsDict(node) THEN Raise("AttributeError")
    ELSE LET message == Get(node, "message", None) IN
    IF ~Truthy(message) THEN Skip
    ELSE IF ~IsDict(message) THEN Raise("AttributeError")
    ELSE LET content == Get(message, "content", Dict(<<>>)) IN
    IF ~Truthy(content) THEN Skip
    ELSE IF ~IsDict(content) THEN Raise("AttributeError")
    ELSE LET parts == Get(content, "parts", List(<<>>)) IN
    IF ~Truthy(parts) THEN Skip
    ELSE IF ~Iterable(parts) THEN Raise("TypeError")
    ELSE LET text == PartsText(parts) IN
    IF text = <<>> \/ Strip(text) = <<>> THEN Skip
    ELSE LET author == Get(message, "author", Dict(<<>>)) IN
    IF ~IsDict(author) THEN Raise("AttributeError")
    ELSE Emit(MakeMessage(conversation, node_id, message, Role(author), text))

\* the insertion at the front: messages.insert(0, ...)
PrependMessage(msgs, msg) == <<msg>> \o msgs

\* line 51: messages.append(...)
AppendMessage(msgs, msg) == Append(msgs, msg)

(***************************************************************************)
(* Input documents.                                                        *)
(***************************************************************************)
Absent == [t |-> "absent"]      \* the key is not in the dict
Field(k, v) == IF v = Absent THEN <<>> ELSE << <<k, v>> >>

SeqsUpTo(S, n) == UNION {[1..k -> S] : k \in 0..n}

NodeKey(i) == "n" \o ToString(i)

MessageDoc(id, author, content) ==
    Dict(Field("id", id) \o Field("author", author) \o Field("content", content)
         \o Field("create_time", Num(100)))
NodeDoc(message) == Dict(Field("message", message))
MappingDoc(nodes) == Dict([i \in 1..Len(nodes) |-> <<NodeKey(i), nodes[i]>>])
ConversationDoc(title, mapping) ==
    Dict(Field("title", title) \o Field("mapping", mapping))

User == Dict(<< <<"role", Str(<<"user">>)>> >>)
Hello == Dict(<< <<"parts", List(<<Str(<<"a">>)>>)>> >>)

PartValues ==
    {Str(<<>>), Str(<<" ">>), Str(<<"a">>), Num(0), Num(7), None,
     List(<<>>), Dict(<<>>)}
PartsLists == {List(l) : l \in SeqsUpTo(PartValues, MaxParts)}

Ids == {Absent, None, Str(<<"m1">>)}
Authors == {Absent, None, Dict(<<>>), Dict(<< <<"role", None>> >>), User}
Contents ==
    {Absent, None, Dict(<<>>), Str(<<"a">>),
     Dict(<< <<"content_type", Str(<<"text">>)>> >>),
     Dict(<< <<"parts", None>> >>),
     Dict(<< <<"parts", List(<<>>)>> >>),
     Dict(<< <<"parts", Num(7)>> >>),
     Dict(<< <<"parts", Str(<<"a", " ", "b">>)>> >>),
     Hello}
Titles == {Absent, None, Str(<<>>), Str(<<"T">>)}

ShapeNodes ==
    {None, NodeDoc(Absent), NodeDoc(None), NodeDoc(Str(<<"a">>))}
    \cup {NodeDoc(MessageDoc(Str(<<"m1">>), User, c)) : c \in Contents}
    \cup {NodeDoc(MessageDoc(i, User, Hello)) : i \in Ids}
    \cup {NodeDoc(MessageDoc(Str(<<"m1">>), a, Hello)) : a \in Authors}
PartsNodes ==
    {NodeDoc(MessageDoc(Str(<<"m1">>), User, Dict(<< <<"parts", p>> >>))) :
        p \in PartsLists}

ShapeConversations ==
    {ConversationDoc(t, m) :
        t \in Titles,
        m \in {Absent, None}
              \cup {MappingDoc(ns) : ns \in SeqsUpTo(ShapeNodes, MaxNodes)}}
PartsConversations ==
    {ConversationDoc(Str(<<"T">>), MappingDoc(<<n>>)) : n \in PartsNodes}
SmallConversations ==
    {ConversationDoc(Str(<<"T">>), MappingDoc(ns)) :
        ns \in {<<>>,
                <<NodeDoc(Absent)>>,
                <<NodeDoc(MessageDoc(Str(<<"m1">>), User, Hello))>>,
                <<NodeDoc(MessageDoc(Absent, Absent, Hello)),
                  NodeDoc(MessageDoc(Str(<<"m2">>), User, Hello))>>,
                <<NodeDoc(MessageDoc(Str(<<"m1">>), None, Hello))>>,
                <<NodeDoc(MessageDoc(Str(<<"m3">>), User,
                     Dict(<< <<"parts", List(<<Str(<<"b">>), Str(<<"c">>)>>)>> >>)))>>}}

\* what json.loads gives for the file: a list of conversation documents
ShapeFiles == {<<c>> : c \in ShapeConversations \cup PartsConversations}
SmallFiles == SeqsUpTo(SmallConversations, MaxConversations)

\* The text of a file is a sequence of characters, and of JSON objects that
\* each stand for the characters of one document written on one line
\* (json.dumps puts no line break inside an object).
Ch(c) == [t |-> "char", c |-> c]
JsonObject(doc) == [t |-> "json", doc |-> doc]
Objects(docs) == [i \in 1..Len(docs) |-> <<JsonObject(docs[i])>>]
\* the three ways a list of documents is written to a file: a JSON array,
\* one object per line, and one object per line with lines of blanks
\* between them
ArrayText(docs) ==
    <<Ch("[")>> \o Join(<<Ch(","), Ch(" ")>>, Objects(docs))
                \o <<Ch("]"), Ch("\n")>>
LinesText(docs) ==
    IF docs = <<>> THEN <<>>
    ELSE Join(<<Ch("\n")>>, Objects(docs)) \o <<Ch("\n")>>
SpacedLinesText(docs) ==
    <<Ch("\n")>> \o Join(<<Ch(" "), Ch("\n"), Ch(" "), Ch("\n")>>, Objects(docs))
                 \o <<Ch("\n"), Ch("\n")>>
Formats == {"array", "lines", "spaced_lines"}
FileText(format, docs) ==
    CASE format = "array" -> ArrayText(docs)
      [] format = "lines" -> LinesText(docs)
      [] format = "spaced_lines" -> SpacedLinesText(docs)

\* lines 134, 211: what str.strip() removes
Whitespace == {Ch(" "), Ch("\n")}
\* lines 137, 213: json.loads(content) of an array: its elements in order
JsonLoadsArray(content) ==
    LET objs == SelectSeq(content, LAMBDA c : c.t = "json")
    IN  [i \in 1..Len(objs) |-> objs[i].doc]
\* lines 140, 215: json.loads(line) of one line; a line without an object
\* raises JSONDecodeError
JsonLoads(line) ==
    LET text == StripChars(line, Whitespace)
    IN  IF Len(text) = 1 /\ text[1].t = "json" THEN text[1].doc
        ELSE [t |-> "JSONDecodeError"]
\* every line is parsed
AnyLine(line) == TRUE
\* lines 140, 215: if line.strip()
NonBlank(line) == StripChars(line, Whitespace) # <<>>
\* lines 134-140, 211-215: the documents read from the text of the file
ParseFile(text) ==
    LET content == StripChars(text, Whitespace)
    IN  IF content # <<>> /\ content[1] = Ch("[")
        THEN JsonLoadsArray(content)
        ELSE LET lines == SelectSeq(Split(content, Ch("\n")), NonBlank)
             IN  [i \in 1..Len(lines) |-> JsonLoads(lines[i])]

\* the file at file_path: missing, or the text that a list of documents was
\* written as
MissingFile == [exists |-> FALSE, docs |-> <<>>, content |-> <<>>]
File(format, docs) ==
    [exists |-> TRUE, docs |-> docs, content |-> FileText(format, docs)]

\* the arguments of a run.  conversations_simple has neither a model nor a
\* batch size; the malformed documents are loaded with one batch size and
\* one dimension, the small files with every batch size and dimension.
Variants == {"embeddings", "simple"}
BatchSizes == 1..MaxBatch
Dims == 1..MaxDim

(***************************************************************************)
(* State of one run of load_conversations.                                 *)
(***************************************************************************)
VARIABLES
    conversations,  \* line 137/140: the parsed file
    pc,             \* "source" | "read" | "extract" | "node" | "encode" |
                    \* "yield" | "yield_simple" | "done" | "raised"
    ci,             \* line 146: conversations taken so far
    ni,             \* line 27: nodes of the current mapping taken so far
    messages,       \* line 24: the list extract_conversation_text builds
    src,            \* for each element of messages, the index of its node
    all_messages,   \* line 145
    encode_calls,   \* number of calls of model.encode
    embeddings,     \* line 161
    yielded,        \* the records the generator has yielded
    error,          \* the exception that ended the run, or "none"
    variant,        \* "embeddings" | "simple": which source is run
    file,           \* lines 107, 201: the file at file_path
    batch_size,     \* line 69
    dim,            \* line 168: the model's embedding dimension
    model_loaded,   \* line 113: SentenceTransformer(...) was constructed
    \* query.py, one call of search_sync or search_async
    table,          \* the rows of the conversations table
    args,           \* lines 45-50: the arguments of the call
    query_embedding,\* line 67
    spc,            \* "idle" | "called" | "build" | "execute" | "returned" |
                    \* "raised"
    cursor,         \* line 119: the rows of the statement not yet fetched
    results,        \* line 119: the rows fetched so far
    returned,       \* line 129: the list the call returns
    search_error,   \* the exception that ended the call, or "none"
    \* db.py, one use of get_sync_session or get_async_session
    s_kind,         \* "none" | "sync" | "async"
    s_pc,           \* "idle" | "enter" | "body" | "thrown" | "commit" |
                    \* "except" | "close" | "exit"
    s_exc,          \* the exception in flight, or "none"
    s_calls,        \* the calls made on the session, in order
    s_raised,       \* what raised, in order: [by, exc]
    \* api.py, one request to /api/v1/search
    request,        \* line 114: the request, or None
    a_pc,           \* "idle" | "received" | "session" | "search" |
                    \* "leaving" | "done"
    a_result,       \* line 153: the value of the return statement
    response,       \* the HTTP response, or None
    \* query.py, search_sync followed by search_async on one table
    method,         \* "sync" | "async": the method that is running
    first,          \* what search_sync gave, or None
    \* api.py and db.py, the module globals and the requests that use them
    globals,        \* _vector_searcher, _async_engine, _AsyncSessionLocal
    built,          \* how many of each were constructed
    r_pc,           \* for each request, where its coroutine is
    r_got           \* for each request, the instances its calls returned

params == <<variant, file, batch_size, dim>>
loader == <<conversations, pc, ci, ni, messages, src, all_messages,
            encode_calls, embeddings, yielded, error, params, model_loaded>>
search == <<table, args, query_embedding, spc, cursor, results, returned,
            search_error>>
session == <<s_kind, s_pc, s_exc, s_calls, s_raised>>
api == <<request, a_pc, a_result, response>>
pair == <<method, first>>
conc == <<globals, built, r_pc, r_got>>
service == <<session, api, pair, conc>>
vars == <<loader, search, service>>

\* no search is running
SearchIdle ==
    /\ table = <<>>
    /\ args = None
    /\ query_embedding = None
    /\ spc = "idle"
    /\ cursor = {}
    /\ results = <<>>
    /\ returned = <<>>
    /\ search_error = "none"

\* no session is in use
SessionIdle ==
    /\ s_kind = "none"
    /\ s_pc = "idle"
    /\ s_exc = "none"
    /\ s_calls = <<>>
    /\ s_raised = <<>>

\* no request is being served
ApiIdle ==
    /\ request = None
    /\ a_pc = "idle"
    /\ a_result = None
    /\ response = None
\* one call of search_sync
PairIdle ==
    /\ method = "sync"
    /\ first = None
\* no coroutine is running
ConcIdle ==
    /\ globals = None
    /\ built = None
    /\ r_pc = <<>>
    /\ r_got = <<>>

\* a source is called with a file, a batch size and a model of a dimension
StartsRun(v, f, b, n) ==
    /\ variant = v
    /\ file = f
    /\ batch_size = b
    /\ dim = n

Init ==
    /\ \/ \E v \in Variants :
              StartsRun(v, MissingFile, IF v = "simple" THEN 0 ELSE MaxBatch,
                        IF v = "simple" THEN 0 ELSE MaxDim)
       \/ \E d \in ShapeFiles : StartsRun("simple", File("array", d), 0, 0)
       \/ \E d \in SmallFiles, f \in Formats :
              StartsRun("simple", File(f, d), 0, 0)
       \/ \E d \in ShapeFiles :
              StartsRun("embeddings", File("lines", d), MaxBatch, MaxDim)
       \/ \E d \in SmallFiles, f \in Formats, b \in BatchSizes, n \in Dims :
              StartsRun("embeddings", File(f, d), b, n)
    /\ SearchIdle
    /\ SessionIdle
    /\ ApiIdle
    /\ PairIdle
    /\ ConcIdle
    /\ model_loaded = FALSE
    /\ conversations = <<>>
    /\ pc = "source"
    /\ ci = 0
    /\ ni = 0
    /\ messages = <<>>
    /\ src = <<>>
    /\ all_messages = <<>>
    /\ encode_calls = 0
    /\ embeddings = <<>>
    /\ yielded = <<>>
    /\ error = "none"

conversation == conversations[ci]
items == MappingOf(conversation).items
node_id == items[ni + 1][1]
node == items[ni + 1][2]

(***************************************************************************)
(* The embedding model (an external function of the text) and the          *)
(* pgvector text form of a vector.                                         *)
(***************************************************************************)
\* one vector of dim components per text; components may be negative
Embed(text) ==
    [k \in 1..dim |->
        IF k = 1 THEN Len(text.s)
        ELSE IF k = 2 THEN 0 - Cardinality({i \in 1..Len(text.s) : text.s[i] = " "})
        ELSE 0]

\* line 158: texts = [msg["text"] for msg in all_messages]
texts == [i \in 1..Len(all_messages) |-> all_messages[i].text]

\* lines 161-166: model.encode works through texts in batches of batch_size;
\* the batch that starts after `done` texts
Batch(ts, done, size) ==
    SubSeq(ts, done + 1, IF done + size < Len(ts) THEN done + size ELSE Len(ts))
\* a batch encoded with every text cut to the shortest text of the batch
TruncatedBatchVectors(batch) ==
    [i \in 1..Len(batch) |->
        IF Len(batch[i].s) <= Len(batch[1].s) THEN Embed(batch[i])
        ELSE Embed(Str(SubSeq(batch[i].s, 1, Len(batch[1].s))))]
BatchVectors(batch) == [i \in 1..Len(batch) |-> Embed(batch[i])]
\* the whole of model.encode(ts, batch_size=size)
RECURSIVE ModelEncodeFrom(_, _, _)
ModelEncodeFrom(ts, done, size) ==
    IF done >= Len(ts) THEN <<>>
    ELSE BatchVectors(Batch(ts, done, size))
             \o ModelEncodeFrom(ts, done + Len(Batch(ts, done, size)), size)
ModelEncode(ts, size) == ModelEncodeFrom(ts, 0, size)

\* line 174: "[" + ",".join(str(float(x)) for x in embedding) + "]"
FloatStr(x) == <<ToString(x), ".", "0">>
SpacedEmbeddingStr(embedding) ==
    Str(<<"[">> \o Join(<<",", " ">>, [i \in 1..Len(embedding) |-> FloatStr(embedding[i])])
        \o <<"]">>)
EmbeddingStr(embedding) ==
    Str(<<"[">> \o Join(<<",">>, [i \in 1..Len(embedding) |-> FloatStr(embedding[i])])
        \o <<"]">>)

\* the record without the fields of the message
EmbeddingOnlyRecord(message, embedding) ==
    [f \in {"embedding"} |-> EmbeddingStr(embedding)]
\* lines 175-178: {**message, "embedding": embedding_str}
Record(message, embedding) ==
    [f \in DOMAIN message \cup {"embedding"} |->
        IF f = "embedding" THEN EmbeddingStr(embedding) ELSE message[f]]

\* lines 108, 202: file_path.exists()
FileNeverChecked == TRUE
FileExists == file.exists

\* lines 108-109, 202-203: raise FileNotFoundError
SourceRaises ==
    /\ pc = "source"
    /\ ~FileExists
    /\ pc' = "raised"
    /\ error' = "FileNotFoundError"
    /\ UNCHANGED <<service, search, params, model_loaded, conversations, ci, ni, messages, src,
                   all_messages, encode_calls, embeddings, yielded>>

\* line 113: model = SentenceTransformer(model_name, device=device)
LoadModel ==
    /\ pc = "source"
    /\ variant = "embeddings"
    /\ FileExists
    /\ model_loaded' = TRUE
    /\ pc' = "read"
    /\ UNCHANGED <<service, search, params, conversations, ci, ni, messages, src, all_messages,
                   encode_calls, embeddings, yielded, error>>

\* lines 201-205: conversations_simple builds its resource without a model
SimpleSource ==
    /\ pc = "source"
    /\ variant = "simple"
    /\ FileExists
    /\ pc' = "read"
    /\ UNCHANGED <<service, search, params, model_loaded, conversations, ci, ni, messages, src,
                   all_messages, encode_calls, embeddings, yielded, error>>

\* lines 132-140, 209-216: the file is read and parsed
ReadFile ==
    /\ pc = "read"
    /\ file.exists
    /\ conversations' = ParseFile(file.content)
    /\ pc' = "extract"
    /\ UNCHANGED <<service, search, params, model_loaded, ci, ni, messages, src, all_messages,
                   encode_calls, embeddings, yielded, error>>

\* lines 146-147, 24-27: the next conversation is handed to
\* extract_conversation_text, which starts its loop
CallExtract ==
    /\ pc = "extract"
    /\ ci < Len(conversations)
    /\ IsDict(MappingOf(conversations[ci + 1]))
    /\ ci' = ci + 1
    /\ ni' = 0
    /\ messages' = <<>>
    /\ src' = <<>>
    /\ pc' = "node"
    /\ UNCHANGED <<service, search, params, model_loaded, conversations, all_messages, encode_calls, embeddings,
                   yielded, error>>

\* line 27: mapping.items() on a mapping that is no dict
CallExtractRaises ==
    /\ pc = "extract"
    /\ ci < Len(conversations)
    /\ ~IsDict(MappingOf(conversations[ci + 1]))
    /\ ci' = ci + 1
    /\ ni' = 0
    /\ messages' = <<>>
    /\ src' = <<>>
    /\ pc' = "raised"
    /\ error' = "AttributeError"
    /\ UNCHANGED <<service, search, params, model_loaded, conversations, all_messages, encode_calls, embeddings, yielded>>

\* the node ends the loop (break) where the code has continue
SkipNodeBreaks ==
    /\ pc = "node"
    /\ ni < Len(items)
    /\ NodeStep(conversation, node_id, node).kind = "skip"
    /\ ni' = Len(items)
    /\ UNCHANGED <<service, search, params, model_loaded, conversations, pc, ci, messages, src, all_messages,
                   encode_calls, embeddings, yielded, error>>

\* lines 28-45: the node is passed over
SkipNode ==
    /\ pc = "node"
    /\ ni < Len(items)
    /\ NodeStep(conversation, node_id, node).kind = "skip"
    /\ ni' = ni + 1
    /\ UNCHANGED <<service, search, params, model_loaded, conversations, pc, ci, messages, src, all_messages,
                   encode_calls, embeddings, yielded, error>>

\* lines 28-58: the node's message is appended
EmitNode ==
    /\ pc = "node"
    /\ ni < Len(items)
    /\ NodeStep(conversation, node_id, node).kind = "emit"
    /\ messages' = AppendMessage(messages, NodeStep(conversation, node_id, node).msg)
    /\ src' = Append(src, ni + 1)
    /\ ni' = ni + 1
    /\ UNCHANGED <<service, search, params, model_loaded, conversations, pc, ci, all_messages, encode_calls,
                   embeddings, yielded, error>>

\* lines 28-49: a .get on None, a str or a number, or iterating a number
RaiseNode ==
    /\ pc = "node"
    /\ ni < Len(items)
    /\ NodeStep(conversation, node_id, node).kind = "raise"
    /\ pc' = "raised"
    /\ error' = NodeStep(conversation, node_id, node).exc
    /\ UNCHANGED <<service, search, params, model_loaded, conversations, ci, ni, messages, src, all_messages,
                   encode_calls, embeddings, yielded>>

\* lines 60, 148: return messages; all_messages.extend(messages)
ReturnMessages ==
    /\ pc = "node"
    /\ ni = Len(items)
    /\ all_messages' = all_messages \o messages
    /\ pc' = "extract"
    /\ UNCHANGED <<service, search, params, model_loaded, conversations, ci, ni, messages, src, encode_calls,
                   embeddings, yielded, error>>

\* lines 152-154: if not all_messages: return
NoMessages ==
    /\ pc = "extract"
    /\ variant = "embeddings"
    /\ ci = Len(conversations)
    /\ all_messages = <<>>
    /\ pc' = "done"
    /\ UNCHANGED <<service, search, params, model_loaded, conversations, ci, ni, messages, src,
                   all_messages, encode_calls, embeddings, yielded, error>>

\* the embedding step without its guard
AlwaysEncode == TRUE

\* line 152: the guard in front of the embedding step
HasMessages == all_messages # <<>>

\* lines 158-161: model.encode(texts, batch_size=batch_size, ...) is called
Encode ==
    /\ pc = "extract"
    /\ variant = "embeddings"
    /\ ci = Len(conversations)
    /\ HasMessages
    /\ encode_calls' = encode_calls + 1
    /\ embeddings' = <<>>
    /\ pc' = "encode"
    /\ UNCHANGED <<service, search, params, model_loaded, conversations, ci, ni, messages, src,
                   all_messages, yielded, error>>

\* a generator that hands out the records of a batch as soon as the batch
\* is embedded
EncodeBatchYielding ==
    /\ pc = "encode"
    /\ Len(embeddings) < Len(texts)
    /\ embeddings' = embeddings
           \o BatchVectors(Batch(texts, Len(embeddings), batch_size))
    /\ yielded' = [i \in 1..Len(embeddings') |->
                       Record(all_messages[i], embeddings'[i])]
    /\ UNCHANGED <<service, search, params, model_loaded, conversations, pc, ci, ni, messages,
                   src, all_messages, encode_calls, error>>

\* lines 161-166: inside model.encode the next batch is embedded
EncodeBatch ==
    /\ pc = "encode"
    /\ Len(embeddings) < Len(texts)
    /\ embeddings' = embeddings
           \o BatchVectors(Batch(texts, Len(embeddings), batch_size))
    /\ UNCHANGED <<service, search, params, model_loaded, conversations, pc, ci, ni, messages,
                   src, all_messages, encode_calls, yielded, error>>

\* lines 161-166: model.encode raises on a text of the next batch
EncodeRaises ==
    /\ pc = "encode"
    /\ Len(embeddings) < Len(texts)
    /\ pc' = "raised"
    /\ error' = "EncodeError"
    /\ UNCHANGED <<service, search, params, model_loaded, conversations, ci, ni, messages, src,
                   all_messages, encode_calls, embeddings, yielded>>

\* lines 161-168: model.encode returns the array of all vectors
EncodeReturns ==
    /\ pc = "encode"
    /\ Len(embeddings) = Len(texts)
    /\ pc' = "yield"
    /\ UNCHANGED <<service, search, params, model_loaded, conversations, ci, ni, messages, src,
                   all_messages, encode_calls, embeddings, yielded, error>>

\* the vectors handed out from the last one to the first
ZipReversed(k) == embeddings[Len(embeddings) + 1 - k]
\* line 172: zip(all_messages, embeddings) pairs the k-th message with the
\* k-th vector
Zip(k) == embeddings[k]

\* lines 172-179: the next record is yielded
YieldRecord ==
    /\ pc = "yield"
    /\ Len(yielded) < Len(all_messages)
    /\ yielded' = Append(yielded, Record(all_messages[Len(yielded) + 1],
                                         Zip(Len(yielded) + 1)))
    /\ UNCHANGED <<service, search, params, model_loaded, conversations, pc, ci, ni, messages,
                   src, all_messages, encode_calls, embeddings, error>>

\* line 172: zip is exhausted, the generator ends
Finish ==
    /\ pc = "yield"
    /\ Len(yielded) = Len(all_messages)
    /\ pc' = "done"
    /\ UNCHANGED <<service, search, params, model_loaded, conversations, ci, ni, messages, src,
                   all_messages, encode_calls, embeddings, yielded, error>>

\* lines 218-228: conversations_simple has extracted every conversation
ExtractedAll ==
    /\ pc = "extract"
    /\ variant = "simple"
    /\ ci = Len(conversations)
    /\ pc' = "yield_simple"
    /\ UNCHANGED <<service, search, params, model_loaded, conversations, ci, ni, messages, src,
                   all_messages, encode_calls, embeddings, yielded, error>>

\* a record with an embedding field that holds no vector
SimpleRecordWithEmbedding(message) == Record(message, <<>>)
\* line 229: yield message
SimpleRecord(message) == message

\* lines 228-229: for message in all_messages: yield message
YieldMessage ==
    /\ pc = "yield_simple"
    /\ Len(yielded) < Len(all_messages)
    /\ yielded' = Append(yielded, SimpleRecord(all_messages[Len(yielded) + 1]))
    /\ UNCHANGED <<service, search, params, model_loaded, conversations, pc, ci, ni, messages,
                   src, all_messages, encode_calls, embeddings, error>>

\* line 228: the loop is over, the generator ends
FinishSimple ==
    /\ pc = "yield_simple"
    /\ Len(yielded) = Len(all_messages)
    /\ pc' = "done"
    /\ UNCHANGED <<service, search, params, model_loaded, conversations, ci, ni, messages, src,
                   all_messages, encode_calls, embeddings, yielded, error>>

Next ==
    \/ SourceRaises
    \/ LoadModel
    \/ SimpleSource
    \/ ReadFile
    \/ CallExtract
    \/ CallExtractRaises
    \/ SkipNode
    \/ EmitNode
    \/ RaiseNode
    \/ ReturnMessages
    \/ NoMessages
    \/ Encode
    \/ EncodeBatch
    \/ EncodeRaises
    \/ EncodeReturns
    \/ YieldRecord
    \/ Finish
    \/ ExtractedAll
    \/ YieldMessage
    \/ FinishSimple

Spec == Init /\ [][Next]_vars

(***************************************************************************)
(* Properties of extract_conversation_text.                                *)
(***************************************************************************)
ExtractErrors == {"AttributeError", "TypeError"}
ExtractRaised == pc = "raised" /\ error \in ExtractErrors
\* the current call of extract_conversation_text has returned
Returned == ci >= 1 /\ pc # "node" /\ ~ExtractRaised

\* the node, the message and the parts that messages[j] was made from
SourceKey(j) == items[src[j]][1]
SourceMessage(j) == Get(items[src[j]][2], "message", None)
SourceParts(j) ==
    Iter(Get(Get(SourceMessage(j), "content", None), "parts", None))

\* C1: extract_conversation_text never raises, whatever the shape of the
\* nodes of the document's mapping.
C1_ExtractNeverRaises ==
    ~(ExtractRaised /\ IsDict(MappingOf(conversation)))

\* the string representations of all of parts, joined by one space, stripped
JoinedAll(parts) ==
    Strip(Join(<<" ">>, [i \in 1..Len(parts) |-> PyStr(parts[i])]))

\* C2 (as claimed): the text of a message with several parts is the join of
\* the string representations of all its parts by one space, stripped.
C2_TextJoinsAllParts ==
    \A j \in 1..Len(messages) :
        Len(SourceParts(j)) >= 2 =>
            messages[j].text = Str(JoinedAll(SourceParts(j)))

\* a part that is an empty string, a zero, a null or an empty container
EmptyPart(p) == p \in {Str(<<>>), Num(0), None, List(<<>>), Dict(<<>>)}
NonEmptyPart(p) == ~EmptyPart(p)

\* C2 (amended): the text of a message with several parts is the join, by
\* one space, of the string representations of those parts that are not an
\* empty string, a zero, a null or an empty container, in order, stripped.
C2_TextJoinsNonEmptyParts ==
    \A j \in 1..Len(messages) :
        Len(SourceParts(j)) >= 2 =>
            messages[j].text = Str(JoinedAll(SelectSeq(SourceParts(j), NonEmptyPart)))

\* a message was emitted from several parts, one of them empty, zero or null
C2_Witness ==
    \E j \in 1..Len(messages) :
        /\ Len(SourceParts(j)) >= 2
        /\ \E i \in 1..Len(SourceParts(j)) : EmptyPart(SourceParts(j)[i])

\* C3: every emitted text is a non-empty str without leading or trailing
\* whitespace, and its node has a part that is non-empty after stripping.
C3_TextNonEmptyStripped ==
    \A j \in 1..Len(messages) :
        LET text == messages[j].text IN
        /\ text.t = "str"
        /\ text.s # <<>>
        /\ text.s[1] # " "
        /\ text.s[Len(text.s)] # " "
        /\ \E i \in 1..Len(SourceParts(j)) :
               Strip(PyStr(SourceParts(j)[i])) # <<>>

\* a message was emitted whose joined parts had whitespace to strip
C3_Witness ==
    \E j \in 1..Len(messages) :
        LET kept == SelectSeq(SourceParts(j), NonEmptyPart)
            joined == Join(<<" ">>, [i \in 1..Len(kept) |-> PyStr(kept[i])])
        IN  joined[1] = " " \/ joined[Len(joined)] = " "

\* a node without a message, a message without content, a content whose
\* parts are absent or empty
NoMessage(n) ==
    IsDict(n) /\ (~HasKey(n, "message") \/ Get(n, "message", None) = None)
NoContent(n) ==
    /\ IsDict(n) /\ HasKey(n, "message") /\ IsDict(Get(n, "message", None))
    /\ LET m == Get(n, "message", None) IN
       ~HasKey(m, "content") \/ Get(m, "content", None) = None
NoParts(n) ==
    /\ IsDict(n) /\ HasKey(n, "message") /\ IsDict(Get(n, "message", None))
    /\ LET m == Get(n, "message", None) IN
       /\ HasKey(m, "content") /\ IsDict(Get(m, "content", None))
       /\ LET c == Get(m, "content", None) IN
          ~HasKey(c, "parts") \/ Get(c, "parts", None) \in {None, List(<<>>)}
Incomplete(n) == NoMessage(n) \/ NoContent(n) \/ NoParts(n)

\* C4: the loop passes over a node without a message, content or parts: it
\* appends nothing, leaves the messages collected so far as they are and
\* goes on with the next node.
C4_IncompleteNodeContributesNothing ==
    [][(pc = "node" /\ ni < Len(items) /\ Incomplete(node)) =>
          /\ messages' = messages
          /\ all_messages' = all_messages
          /\ error' = error
          /\ pc' = "node"
          /\ ci' = ci
          /\ ni' = ni + 1]_vars

\* the call returned the message of a node that follows an incomplete node
C4_Witness ==
    /\ Returned
    /\ \E j \in 1..Len(messages) : \E i \in 1..(src[j] - 1) :
           Incomplete(items[i][2])

\* a conversation without the mapping key, or with an empty mapping
EmptyOrAbsentMapping(c) ==
    ~HasKey(c, "mapping") \/ Get(c, "mapping", None) = Dict(<<>>)

\* C5: for a conversation whose mapping is empty or absent the call does
\* not raise, has no node to visit and returns the empty list.
C5_EmptyMappingGivesEmpty ==
    (ci >= 1 /\ EmptyOrAbsentMapping(conversation)) =>
        /\ ~ExtractRaised
        /\ messages = <<>>
        /\ (pc = "node" => ni = Len(items))

\* the call has returned for a conversation that has no mapping key
C5_Witness ==
    /\ Returned
    /\ ~HasKey(conversation, "mapping")
    /\ messages = <<>>

\* C6: conversation_id is the title when the document has one, and
\* "unknown" when the title key is missing or the title is null or empty.
C6_ConversationIdTitleOrUnknown ==
    \A j \in 1..Len(messages) :
        messages[j].conversation_id =
            IF /\ HasKey(conversation, "title")
               /\ Get(conversation, "title", None) \notin {None, Str(<<>>)}
            THEN Get(conversation, "title", None)
            ELSE Str(<<"unknown">>)

\* C7: message_id is the message's id when it has one, and the key of its
\* node when the id key is missing or the id is null.
C7_MessageIdOrNodeKey ==
    \A j \in 1..Len(messages) :
        messages[j].message_id =
            IF /\ HasKey(SourceMessage(j), "id")
               /\ Get(SourceMessage(j), "id", None) # None
            THEN Get(SourceMessage(j), "id", None)
            ELSE Str(<<SourceKey(j)>>)

\* the role the author of a message carries, or None
AuthorRole(m) ==
    IF HasKey(m, "author") /\ IsDict(Get(m, "author", None))
    THEN Get(Get(m, "author", None), "role", None)
    ELSE None

\* C8: role is message.author.role when present and "unknown" when the
\* author or its role is missing or null.
C8_RoleOrUnknown ==
    \A j \in 1..Len(messages) :
        messages[j].role =
            IF AuthorRole(SourceMessage(j)) # None
            THEN AuthorRole(SourceMessage(j))
            ELSE Str(<<"unknown">>)

\* C9: the output is an order-preserving subsequence of the mapping's
\* nodes: each message is the one of its node, a node gives at most one
\* message, and the nodes of the messages are in mapping order.
C9_OutputInMappingOrder ==
    /\ Len(src) = Len(messages)
    /\ \A j \in 1..Len(messages) :
           /\ src[j] \in 1..ni
           /\ NodeStep(conversation, SourceKey(j), items[src[j]][2])
                  = Emit(messages[j])
    /\ \A j, k \in 1..Len(messages) : j < k => src[j] < src[k]

\* the call returned two different messages
C9_Witness ==
    /\ Returned
    /\ Len(messages) >= 2
    /\ messages[1] # messages[2]

(***************************************************************************)
(* Properties of load_conversations.                                       *)
(***************************************************************************)
\* C10: while no message has been extracted the loader has not called
\* model.encode and has yielded no record; it ends that way.
C10_NoMessagesNoEncode ==
    all_messages = <<>> =>
        /\ encode_calls = 0
        /\ yielded = <<>>
        /\ pc \notin {"yield"}

\* the run is over, conversations were read and none gave a message
C10_Witness ==
    /\ variant = "embeddings"
    /\ pc = "done"
    /\ conversations # <<>>
    /\ all_messages = <<>>

\* the run of the embedding loader is over
Ended == pc \in {"done", "raised"}
\* yielded[k] is the k-th message with the text form of its vector
YieldedWithEmbedding(k) ==
    yielded[k] = Record(all_messages[k], Embed(all_messages[k].text))

\* C11: when model.encode fails the run ends with that failure and no record
\* was yielded; no record is yielded while model.encode is running; a run of
\* the embedding loader ends with every message yielded with its embedding
\* or with none yielded.
C11_EncodeFailsAsAUnit ==
    variant = "embeddings" =>
        /\ error = "EncodeError" => pc = "raised" /\ yielded = <<>>
        /\ pc = "encode" => yielded = <<>>
        /\ Ended =>
               \/ yielded = <<>>
               \/ /\ Len(yielded) = Len(all_messages)
                  /\ \A k \in 1..Len(yielded) : YieldedWithEmbedding(k)

\* model.encode failed on a later batch, after a first batch was embedded
C11_Witness ==
    /\ pc = "raised"
    /\ error = "EncodeError"
    /\ embeddings # <<>>
    /\ Len(embeddings) < Len(all_messages)

\* a vector as a value of a record's field
Vec(v) == [t |-> "vector", v |-> v]
\* yielded[k] has every field of the k-th message, unchanged
KeepsMessageFields(k) ==
    \A f \in DOMAIN all_messages[k] :
        f \in DOMAIN yielded[k] /\ yielded[k][f] = all_messages[k][f]

\* C12 (as claimed): every record of the embedding loader has the fields of
\* its message unchanged, a field that holds the raw vector and a field that
\* holds the text form of the vector.
C12_RecordHasVectorAndText ==
    variant = "embeddings" =>
        \A k \in 1..Len(yielded) :
            /\ KeepsMessageFields(k)
            /\ \E f \in DOMAIN yielded[k] : yielded[k][f] = EmbeddingStr(embeddings[k])
            /\ \E f \in DOMAIN yielded[k] : yielded[k][f] = Vec(embeddings[k])

\* C12 (amended): every record of the embedding loader has the fields of its
\* message unchanged and one more field, "embedding", that holds the text
\* form of the vector; no field holds the raw vector.
C12_RecordHasTextOnly ==
    variant = "embeddings" =>
        \A k \in 1..Len(yielded) :
            /\ KeepsMessageFields(k)
            /\ DOMAIN yielded[k] = DOMAIN all_messages[k] \cup {"embedding"}
            /\ yielded[k].embedding = EmbeddingStr(embeddings[k])
            /\ \A f \in DOMAIN yielded[k] : yielded[k][f] # Vec(embeddings[k])

\* a record was yielded for a message with an id, a role and a text
C12_Witness ==
    /\ variant = "embeddings"
    /\ yielded # <<>>
    /\ yielded[1].message_id = Str(<<"m1">>)
    /\ yielded[1].role = Str(<<"user">>)
    /\ yielded[1].text # Str(<<>>)

\* C13: the embedding loader yields the messages in the order of their
\* extraction, one record for each, the k-th record made of the k-th message
\* and the text form of the vector of the k-th message's text; when the run
\* is done there is a record for every message.
C13_OneRecordPerMessageInOrder ==
    variant = "embeddings" =>
        /\ Len(yielded) <= Len(all_messages)
        /\ \A k \in 1..Len(yielded) :
               /\ KeepsMessageFields(k)
               /\ yielded[k].embedding = EmbeddingStr(Embed(all_messages[k].text))
        /\ pc = "done" => Len(yielded) = Len(all_messages)

\* the run is done and gave records with different vectors
C13_Witness ==
    /\ variant = "embeddings"
    /\ pc = "done"
    /\ Len(yielded) >= 2
    /\ yielded[1].embedding # yielded[2].embedding

\* the text forms of a sequence of vectors
Serialized(vectors) == [i \in 1..Len(vectors) |-> EmbeddingStr(vectors[i])]

RecoveredDim(embedding_str) ==
    Len(Split(StripChars(embedding_str.s, {"[", "]"}), ","))
Count(s, sym) == Cardinality({i \in 1..Len(s) : s[i] = sym})

\* C15: the text form of a vector of n components starts with "[", ends with
\* "]", has no whitespace and n-1 commas; between the brackets, the pieces
\* between the commas are the n components in order, so that stripping the
\* brackets and splitting on commas recovers n.
C15_TextFormOfVector ==
    variant = "embeddings" =>
        \A k \in 1..Len(yielded) :
            LET e == yielded[k].embedding.s
                v == embeddings[k]
            IN  /\ Len(v) = dim
                /\ Head(e) = "[" /\ e[Len(e)] = "]"
                /\ Count(e, " ") = 0
                /\ Count(e, ",") = Len(v) - 1
                /\ Split(SubSeq(e, 2, Len(e) - 1), ",")
                       = [i \in 1..Len(v) |-> FloatStr(v[i])]
                /\ RecoveredDim(yielded[k].embedding) = Len(v)

\* a record was yielded for a vector of several components, one negative
C15_Witness ==
    /\ variant = "embeddings"
    /\ dim >= 2
    /\ \E k \in 1..Len(yielded) : \E i \in 1..dim : embeddings[k][i] < 0

\* C16: a run on a missing file ends in FileNotFoundError, and at no moment
\* of it has the model been loaded, the file been read, a conversation been
\* extracted, model.encode been called or a record been yielded.
C16_MissingFileFailsFirst ==
    ~file.exists =>
        /\ pc \in {"source", "raised"}
        /\ pc = "raised" => error = "FileNotFoundError"
        /\ ~model_loaded
        /\ conversations = <<>> /\ ci = 0 /\ all_messages = <<>>
        /\ encode_calls = 0
        /\ yielded = <<>>

\* conversations_with_embeddings has failed on a missing file
C16_Witness ==
    /\ ~file.exists
    /\ variant = "embeddings"
    /\ pc = "raised"
    /\ error = "FileNotFoundError"

\* conversations_simple has failed on a missing file
C16_WitnessSimple ==
    /\ ~file.exists
    /\ variant = "simple"
    /\ pc = "raised"
    /\ error = "FileNotFoundError"

(***************************************************************************)
(* The loader as a function of the documents in its file.                  *)
(***************************************************************************)
\* lines 24-60: the messages of one conversation whose nodes raise nothing
RECURSIVE ExtractNodes(_, _, _)
ExtractNodes(c, its, k) ==
    IF k > Len(its) THEN <<>>
    ELSE LET step == NodeStep(c, its[k][1], its[k][2])
         IN  (IF step.kind = "emit" THEN <<step.msg>> ELSE <<>>)
                 \o ExtractNodes(c, its, k + 1)
ExtractConversationText(c) == ExtractNodes(c, MappingOf(c).items, 1)
\* lines 145-148: the messages of the first n documents, in file order
RECURSIVE ExtractUpTo(_, _)
ExtractUpTo(docs, n) ==
    IF n = 0 THEN <<>>
    ELSE ExtractUpTo(docs, n - 1) \o ExtractConversationText(docs[n])
\* every conversation of the file was extracted and none raised
Extracted == pc \in {"encode", "yield", "yield_simple", "done"}

\* C23: a list of documents written as a JSON array and written as one
\* object per line (with or without blank lines) is read as the same list,
\* the list that was written; the messages collected after n documents are
\* the concatenation, in file order, of the messages of each of them, and
\* the simple loader's output is the concatenation over the whole file.
C23_ArrayAndLinesGiveSameRecords ==
    file.exists =>
        /\ ParseFile(ArrayText(file.docs)) = ParseFile(LinesText(file.docs))
        /\ ParseFile(SpacedLinesText(file.docs)) = ParseFile(ArrayText(file.docs))
        /\ pc \notin {"source", "read"} => conversations = file.docs
        /\ pc = "extract" => all_messages = ExtractUpTo(file.docs, ci)
        /\ Extracted => all_messages = ExtractUpTo(file.docs, Len(file.docs))
        /\ pc = "done" /\ variant = "simple" =>
               yielded = ExtractUpTo(file.docs, Len(file.docs))

\* a file of two documents, one object per line with blank lines between,
\* was loaded and both documents gave a message
C23_Witness ==
    /\ file.exists
    /\ file.content = SpacedLinesText(file.docs)
    /\ Len(file.docs) = 2
    /\ pc = "done"
    /\ Len(yielded) = 2
    /\ yielded[1].message_id # yielded[2].message_id

\* a record without its embedding field
WithoutEmbedding(record) ==
    [f \in DOMAIN record \ {"embedding"} |-> record[f]]
MessageFields ==
    {"conversation_id", "message_id", "role", "text", "create_time",
     "update_time"}

\* C24: for one file, the records of a finished run of conversations_simple
\* are the messages of the file, with the six message fields and no
\* embedding field, and the records of a finished run of
\* conversations_with_embeddings are, with their embedding field removed,
\* the same messages in the same order.
C24_SimpleIsEmbeddingsWithoutEmbedding ==
    pc = "done" /\ file.exists =>
        LET msgs == ExtractUpTo(file.docs, Len(file.docs))
        IN  /\ Len(yielded) = Len(msgs)
            /\ variant = "simple" =>
                   \A k \in 1..Len(yielded) :
                       /\ DOMAIN yielded[k] = MessageFields
                       /\ yielded[k] = msgs[k]
            /\ variant = "embeddings" =>
                   \A k \in 1..Len(yielded) :
                       /\ DOMAIN yielded[k] = MessageFields \cup {"embedding"}
                       /\ WithoutEmbedding(yielded[k]) = msgs[k]

\* conversations_simple finished a file that gives two messages
C24_Witness ==
    /\ variant = "simple"
    /\ pc = "done"
    /\ Len(yielded) = 2
    /\ yielded[1].text # yielded[2].text

(***************************************************************************)
(* The similarity search of query.py.  search_sync (lines 42-129) and      *)
(* search_async (lines 131-214) build the same statement; they differ in   *)
(* the session that executes it.  Scores are fixed-point numbers, in       *)
(* units of 1/Scale.                                                       *)
(***************************************************************************)
Scale == 10

\* the vector of the query text; its norm, and the norms of the stored
\* vectors and their distances to it, are whole numbers
QueryVector == <<3, 0>>

\* models.py lines 24-28: a row of the table; embedding is nullable
Row(message_id, conversation_id, role, embedding) ==
    [message_id |-> Str(<<message_id>>),
     conversation_id |-> Str(<<conversation_id>>),
     role |-> Str(<<role>>),
     embedding |-> embedding]
\* The loader's table has no key: two loads of a file, or two messages with
\* one id, leave rows that share a message_id.
RowKinds ==
    <<Row("m1", "T", "user", None),
      Row("m1", "T", "user", Vec(<<3, 4>>)),
      Row("m1", "T", "user", Vec(<<3, 0>>)),
      Row("m1", "T", "user", Vec(<<0, 4>>)),
      Row("m2", "T", "user", None),
      Row("m2", "T", "user", Vec(<<3, 4>>)),
      Row("m2", "T", "assistant", Vec(<<6, 0>>)),
      Row("m2", "U", "user", Vec(<<0, 4>>))>>
\* a table is a bag of rows: one sequence stands for all its orders
SortedPicks(n) ==
    {g \in [1..n -> 1..Len(RowKinds)] : \A k \in 1..(n - 1) : g[k] <= g[k + 1]}
Tables ==
    UNION {{[k \in 1..n |-> RowKinds[f[k]]] : f \in SortedPicks(n)} :
              n \in 0..MaxRows}

\* lines 45-50: the arguments of a call
Metrics == {"cosine", "l2", "inner_product"}
Thresholds == {0 - 100, 0 - 45, 0, 5}
Limits == {1, 2, 4}
Filters ==
    {[role_filter |-> None, conversation_id_filter |-> None],
     [role_filter |-> Str(<<"user">>), conversation_id_filter |-> None],
     [role_filter |-> Str(<<>>), conversation_id_filter |-> None],
     [role_filter |-> None, conversation_id_filter |-> Str(<<"T">>)]}
Call(metric, threshold, limit, filter) ==
    [distance_metric |-> metric,
     similarity_threshold |-> threshold,
     limit |-> limit,
     role_filter |-> filter.role_filter,
     conversation_id_filter |-> filter.conversation_id_filter]
Calls ==
    {Call(m, t, l, f) : m \in Metrics, t \in Thresholds, l \in Limits, f \in Filters}
    \cup {Call("dot", 0, 1, [role_filter |-> None, conversation_id_filter |-> None])}

\* pgvector's distances
RECURSIVE DotFrom(_, _, _)
DotFrom(a, b, i) ==
    IF i > Len(a) THEN 0 ELSE a[i] * b[i] + DotFrom(a, b, i + 1)
Dot(a, b) == DotFrom(a, b, 1)
Norm(a) == CHOOSE n \in 0..Dot(a, a) : n * n = Dot(a, a)
Minus(a, b) == [i \in 1..Len(a) |-> a[i] - b[i]]
\* line 82: Conversation.embedding.cosine_distance(query_embedding)
CosineDistance(a, b) == Scale - (Scale * Dot(a, b)) \div (Norm(a) * Norm(b))
\* line 86: Conversation.embedding.l2_distance(query_embedding)
L2Distance(a, b) == Scale * Norm(Minus(a, b))
\* line 91: Conversation.embedding.max_inner_product(query_embedding) is
\* pgvector's operator <#>, which gives the negative inner product
MaxInnerProduct(a, b) == 0 - Scale * Dot(a, b)

\* lines 79-91: similarity_expr for a stored vector (1 - distance_expr at
\* line 83, -distance_expr at line 88)
SimilarityExpr(metric, embedding, q) ==
    CASE metric = "cosine" -> Scale - CosineDistance(embedding.v, q.v)
      [] metric = "l2" -> 0 - L2Distance(embedding.v, q.v)
      [] metric = "inner_product" -> MaxInnerProduct(embedding.v, q.v)

\* lines 101-104: if role_filter: ... / if conversation_id_filter: ...
PassesFilters(row) ==
    /\ Truthy(args.role_filter) => row.role = args.role_filter
    /\ Truthy(args.conversation_id_filter) =>
           row.conversation_id = args.conversation_id_filter
\* lines 96-104: the rows of the subquery
Subquery ==
    {j \in 1..Len(table) :
        table[j].embedding # None /\ PassesFilters(table[j])}
\* line 97: the column "similarity" of the subquery
Similarity(j) ==
    SimilarityExpr(args.distance_metric, table[j].embedding, query_embedding)
\* lines 110-113: select(Conversation, subquery.c.similarity)
\*   .join(subquery, Conversation.message_id == subquery.c.message_id)
\*   .where(subquery.c.similarity >= similarity_threshold)
Joined ==
    {p \in (1..Len(table)) \X Subquery :
        /\ table[p[1]].message_id = table[p[2]].message_id
        /\ Similarity(p[2]) >= args.similarity_threshold}
\* the rows of the statement: a Conversation row, the row of the subquery
\* it is joined with, and that row's similarity
Statement == {<<p[1], p[2], Similarity(p[2])>> : p \in Joined}
\* line 114: .order_by(subquery.c.similarity.desc()): the rows that may come
\* next; rows with equal similarity come in any order
NextRows == {r \in cursor : \A o \in cursor : r[3] >= o[3]}
\* of the rows that pair one Conversation row with equally similar rows of
\* the subquery, the one that is taken when that Conversation row comes
Taken(i, sim) ==
    CHOOSE r \in cursor :
        /\ r[1] = i /\ r[3] = sim
        /\ \A o \in cursor : o[1] = i /\ o[3] = sim => r[2] <= o[2]

\* lines 122-127: SQLAlchemy keeps one Conversation object per primary key
\* (models.py line 24), made from the first row fetched with that key;
\* conv.similarity = similarity writes to that object for every row
ObjectOf(rs, k) ==
    CHOOSE f \in 1..Len(rs) :
        /\ table[rs[f].row].message_id = table[rs[k].row].message_id
        /\ \A o \in 1..(f - 1) :
               table[rs[o].row].message_id # table[rs[k].row].message_id
LastWrite(rs, k) ==
    CHOOSE l \in 1..Len(rs) :
        /\ table[rs[l].row].message_id = table[rs[k].row].message_id
        /\ \A o \in (l + 1)..Len(rs) :
               table[rs[o].row].message_id # table[rs[k].row].message_id
\* lines 121-129: the list of Conversation objects
Conversations(rs) ==
    [k \in 1..Len(rs) |->
        [row |-> rs[ObjectOf(rs, k)].row,
         conv |-> table[rs[ObjectOf(rs, k)].row],
         similarity |-> rs[LastWrite(rs, k)].similarity]]

\* a list whose objects were never given their similarity
ConversationsUnscored(rs) ==
    [k \in 1..Len(rs) |->
        [row |-> rs[ObjectOf(rs, k)].row,
         conv |-> table[rs[ObjectOf(rs, k)].row],
         similarity |-> 0]]
\* lines 206-214: search_async makes its list with the same loop, over
\* rows = result.all()
ConversationsAsync(rs) == Conversations(rs)

\* the loader is not running
LoaderIdle ==
    /\ variant = "embeddings"
    /\ file = MissingFile
    /\ batch_size = MaxBatch
    /\ dim = MaxDim
    /\ model_loaded = FALSE
    /\ conversations = <<>>
    /\ pc = "idle"
    /\ ci = 0
    /\ ni = 0
    /\ messages = <<>>
    /\ src = <<>>
    /\ all_messages = <<>>
    /\ encode_calls = 0
    /\ embeddings = <<>>
    /\ yielded = <<>>
    /\ error = "none"

SearchInit ==
    /\ LoaderIdle
    /\ SessionIdle
    /\ ApiIdle
    /\ PairIdle
    /\ ConcIdle
    /\ table \in Tables
    /\ args \in Calls
    /\ query_embedding = None
    /\ spc = "called"
    /\ cursor = {}
    /\ results = <<>>
    /\ returned = <<>>
    /\ search_error = "none"

\* line 67: query_embedding = self.encode_query(query_text)
EncodeQuery ==
    /\ spc = "called"
    /\ query_embedding' = Vec(QueryVector)
    /\ spc' = "build"
    /\ UNCHANGED <<service, loader, table, args, cursor, results, returned, search_error>>

\* line 67: the embedding model fails on the query text
EncodeQueryRaises ==
    /\ spc = "called"
    /\ spc' = "raised"
    /\ search_error' = "RuntimeError"
    /\ UNCHANGED <<service, loader, table, args, query_embedding, cursor, results,
                   returned>>

\* lines 79-119: the statement is built for a known metric and executed
ExecuteQuery ==
    /\ spc = "build"
    /\ args.distance_metric \in {"cosine", "l2", "inner_product"}
    /\ cursor' = Statement
    /\ spc' = "execute"
    /\ UNCHANGED <<service, loader, table, args, query_embedding, results, returned,
                   search_error>>

\* line 119: the database fails to execute the statement
ExecuteRaises ==
    /\ spc = "build"
    /\ args.distance_metric \in {"cosine", "l2", "inner_product"}
    /\ spc' = "raised"
    /\ search_error' = "DBAPIError"
    /\ UNCHANGED <<service, loader, table, args, query_embedding, cursor, results,
                   returned>>

UnknownMetricFallsBack ==
    /\ spc = "build"
    /\ args.distance_metric \notin {"cosine", "l2", "inner_product"}
    /\ cursor' = {<<j, j, 0>> : j \in Subquery}
    /\ spc' = "execute"
    /\ UNCHANGED <<service, loader, table, args, query_embedding, results, returned,
                   search_error>>

\* lines 92-93: raise ValueError(f"Unknown distance metric: ...")
UnknownMetric ==
    /\ spc = "build"
    /\ args.distance_metric \notin {"cosine", "l2", "inner_product"}
    /\ spc' = "raised"
    /\ search_error' = "ValueError"
    /\ UNCHANGED <<service, loader, table, args, query_embedding, cursor, results,
                   returned>>

\* lines 115, 119: the database hands over the next row, at most limit rows
FetchRow ==
    /\ spc = "execute"
    /\ Len(results) < args.limit
    /\ \E r \in NextRows :
           /\ results' = Append(results, [row |-> r[1], similarity |-> r[3]])
           /\ cursor' = cursor \ {Taken(r[1], r[3])}
    /\ UNCHANGED <<service, loader, table, args, query_embedding, spc, returned,
                   search_error>>

\* lines 119-129: .all() has every row; the objects get their similarity and
\* are returned
ReturnConversations ==
    /\ spc = "execute"
    /\ Len(results) = args.limit \/ cursor = {}
    /\ returned' = IF method = "async" THEN ConversationsAsync(results)
                                        ELSE Conversations(results)
    /\ spc' = "returned"
    /\ UNCHANGED <<service, loader, table, args, query_embedding, cursor, results,
                   search_error>>

SearchNext ==
    \/ EncodeQuery
    \/ EncodeQueryRaises
    \/ ExecuteQuery
    \/ ExecuteRaises
    \/ UnknownMetric
    \/ FetchRow
    \/ ReturnConversations

SearchSpec == SearchInit /\ [][SearchNext]_vars

(***************************************************************************)
(* Properties of the similarity search.                                    *)
(***************************************************************************)
\* the stored rows that are scored and whose score reaches the threshold
Eligible == {j \in Subquery : Similarity(j) >= args.similarity_threshold}
\* the stored rows that the returned list shows
ReturnedRows == {returned[k].row : k \in 1..Len(returned)}
\* no two stored rows share a message_id
UniqueIds ==
    \A i, j \in 1..Len(table) :
        table[i].message_id = table[j].message_id => i = j

\* C17: a search returns scored rows whose score reaches the threshold, at
\* most limit of them, none with a similarity below the threshold, in
\* non-increasing order of similarity, and no scored row that reaches the
\* threshold and was left out has a score above a returned similarity.
C17_ResultIsThresholdedSortedPrefix ==
    spc = "returned" =>
        /\ ReturnedRows \subseteq Eligible
        /\ Len(returned) <= args.limit
        /\ \A k \in 1..Len(returned) :
               returned[k].similarity >= args.similarity_threshold
        /\ \A k, l \in 1..Len(returned) :
               k < l => returned[k].similarity >= returned[l].similarity
        /\ \A j \in Eligible \ ReturnedRows :
               \A k \in 1..Len(returned) : Similarity(j) <= returned[k].similarity

\* the distance of the metric between a stored vector and the query vector
Distance(embedding) ==
    IF args.distance_metric = "cosine"
    THEN CosineDistance(embedding.v, query_embedding.v)
    ELSE L2Distance(embedding.v, query_embedding.v)

\* C18: with the metric cosine the similarity of every returned row is 1
\* minus the cosine distance between its stored vector and the query vector,
\* with l2 it is the negated L2 distance; a returned row that is closer to
\* the query has the higher similarity and comes earlier.
C18_ScoreIsOneMinusCosineOrNegatedL2 ==
    spc = "returned" /\ args.distance_metric \in {"cosine", "l2"} =>
        /\ \A k \in 1..Len(returned) :
               /\ returned[k].conv.embedding # None
               /\ returned[k].similarity =
                      IF args.distance_metric = "cosine"
                      THEN Scale - Distance(returned[k].conv.embedding)
                      ELSE 0 - Distance(returned[k].conv.embedding)
        /\ \A k, l \in 1..Len(returned) :
               Distance(returned[k].conv.embedding)
                   < Distance(returned[l].conv.embedding) =>
                   /\ returned[k].similarity > returned[l].similarity
                   /\ k < l

\* the inner product of a stored row's vector with the query vector
InnerProduct(j) == Dot(table[j].embedding.v, query_embedding.v)

\* C19: with the metric inner_product, on a table without shared message
\* ids, of two returned rows the one with the larger inner product has the
\* higher similarity and comes earlier, and no scored row that passes the
\* filters and was left out has a larger inner product than a returned row.
C19_LargerInnerProductRanksFirst ==
    spc = "returned" /\ args.distance_metric = "inner_product" /\ UniqueIds =>
        /\ \A k, l \in 1..Len(returned) :
               InnerProduct(returned[k].row) > InnerProduct(returned[l].row) =>
                   /\ returned[k].similarity > returned[l].similarity
                   /\ k < l
        /\ Len(returned) = args.limit =>
               \A j \in Subquery \ ReturnedRows :
                   \A k \in 1..Len(returned) :
                       InnerProduct(j) <= InnerProduct(returned[k].row)

\* C20: no row of the subquery, and no row that the database hands over or
\* that the search returns, has a null embedding.
C20_NullEmbeddingNeverReturned ==
    spc \in {"execute", "returned"} =>
        /\ \A j \in Subquery : table[j].embedding # None
        /\ \A k \in 1..Len(results) : table[results[k].row].embedding # None
        /\ \A k \in 1..Len(returned) : returned[k].conv.embedding # None

\* C21: a search called with a metric other than cosine, l2 or
\* inner_product ends with ValueError raised to the caller: no statement is
\* ever executed, no row is fetched and no list is returned.
C21_UnknownMetricFailsBeforeExecute ==
    args.distance_metric \notin Metrics =>
        /\ spc \in {"called", "build", "raised"}
        /\ cursor = {}
        /\ results = <<>>
        /\ returned = <<>>
        /\ spc = "raised" /\ query_embedding # None =>
               search_error = "ValueError"

\* an unknown metric reached the else branch, over a table that has rows
\* the statement would have found
C21_Witness ==
    /\ args.distance_metric \notin Metrics
    /\ spc = "raised"
    /\ search_error = "ValueError"
    /\ Subquery # {}

\* C22: when a role_filter is supplied every returned row has that role, and
\* when a conversation_id_filter is supplied every returned row has that
\* conversation_id.
C22_ReturnedRowsMatchFilters ==
    spc = "returned" =>
        \A k \in 1..Len(returned) :
            /\ args.role_filter # None =>
                   returned[k].conv.role = args.role_filter
            /\ args.conversation_id_filter # None =>
                   returned[k].conv.conversation_id =
                       args.conversation_id_filter

\* C27: the result holds each stored row at most once, and no more results
\* than there are matching stored rows.
C27_EachRowAtMostOnce ==
    spc = "returned" =>
        /\ \A k, l \in 1..Len(returned) :
               returned[k].row = returned[l].row => k = l
        /\ Len(returned) <= Cardinality(Eligible)

(***************************************************************************)
(* The session context managers of db.py: get_sync_session (lines 92-114)  *)
(* and get_async_session (lines 117-138).  The body of the with statement  *)
(* runs between the yield and the commit.                                  *)
(***************************************************************************)
SessionKinds == {"sync", "async"}
\* exceptions that are no subclasses of Exception: a cancelled task, Ctrl-C
BaseExceptionsOnly == {"CancelledError", "KeyboardInterrupt"}
\* what the body of a with statement may raise
BodyExceptions(kind) ==
    {"ValueError", IF kind = "async" THEN "CancelledError" ELSE "KeyboardInterrupt"}
\* lines 110, 136: except Exception
Caught(e) == e \notin BaseExceptionsOnly

SessionInit ==
    /\ LoaderIdle
    /\ SearchIdle
    /\ ApiIdle
    /\ PairIdle
    /\ ConcIdle
    /\ s_kind \in SessionKinds
    /\ s_pc = "enter"
    /\ s_exc = "none"
    /\ s_calls = <<>>
    /\ s_raised = <<>>

\* lines 105-108, 131-134: the session is made and handed to the body
OpenSession ==
    /\ s_pc = "enter"
    /\ s_pc' = "body"
    /\ UNCHANGED <<api, pair, conc, loader, search, s_kind, s_exc, s_calls, s_raised>>

\* the body executes a statement on the session (lines 102, 127)
BodyExecutes ==
    /\ s_pc = "body"
    /\ Len(s_calls) < MaxStatements
    /\ s_calls' = Append(s_calls, "execute")
    /\ UNCHANGED <<api, pair, conc, loader, search, s_kind, s_pc, s_exc, s_raised>>

\* lines 108-109, 134-135: the body ends and the generator resumes after
\* the yield
BodyReturns ==
    /\ s_pc = "body"
    /\ s_pc' = "commit"
    /\ UNCHANGED <<api, pair, conc, loader, search, s_kind, s_exc, s_calls, s_raised>>

\* lines 108, 134: the body raises and the exception is thrown into the
\* generator at the yield
BodyRaises ==
    /\ s_pc = "body"
    /\ \E e \in BodyExceptions(s_kind) :
           /\ s_exc' = e
           /\ s_raised' = Append(s_raised, [by |-> "body", exc |-> e])
    /\ s_pc' = "thrown"
    /\ UNCHANGED <<api, pair, conc, loader, search, s_kind, s_calls>>

\* lines 109, 135: session.commit() returns
Commit ==
    /\ s_pc = "commit"
    /\ s_calls' = Append(s_calls, "commit")
    /\ s_pc' = "close"
    /\ UNCHANGED <<api, pair, conc, loader, search, s_kind, s_exc, s_raised>>

\* lines 109, 135: session.commit() raises
CommitRaises ==
    /\ s_pc = "commit"
    /\ s_calls' = Append(s_calls, "commit")
    /\ s_exc' = "OperationalError"
    /\ s_raised' = Append(s_raised, [by |-> "commit", exc |-> "OperationalError"])
    /\ s_pc' = "thrown"
    /\ UNCHANGED <<api, pair, conc, loader, search, s_kind>>

\* lines 110, 136: the except clause takes the exception
CatchException ==
    /\ s_pc = "thrown"
    /\ Caught(s_exc)
    /\ s_pc' = "except"
    /\ UNCHANGED <<api, pair, conc, loader, search, s_kind, s_exc, s_calls, s_raised>>

\* an exception that leaves the session open
PassExceptionUnclosed ==
    /\ s_pc = "thrown"
    /\ ~Caught(s_exc)
    /\ s_pc' = "exit"
    /\ UNCHANGED <<api, pair, conc, loader, search, s_kind, s_exc, s_calls, s_raised>>

\* lines 110-114, 132-136: the except clause does not take the exception,
\* which leaves through finally (through async with)
PassException ==
    /\ s_pc = "thrown"
    /\ ~Caught(s_exc)
    /\ s_pc' = "close"
    /\ UNCHANGED <<api, pair, conc, loader, search, s_kind, s_exc, s_calls, s_raised>>

\* lines 111-112, 137-138: session.rollback() returns; raise
Rollback ==
    /\ s_pc = "except"
    /\ s_calls' = Append(s_calls, "rollback")
    /\ s_pc' = "close"
    /\ UNCHANGED <<api, pair, conc, loader, search, s_kind, s_exc, s_raised>>

\* lines 111, 137: session.rollback() raises
RollbackRaises ==
    /\ s_pc = "except"
    /\ s_calls' = Append(s_calls, "rollback")
    /\ s_exc' = "InterfaceError"
    /\ s_raised' = Append(s_raised, [by |-> "rollback", exc |-> "InterfaceError"])
    /\ s_pc' = "close"
    /\ UNCHANGED <<api, pair, conc, loader, search, s_kind>>

\* lines 113-114: finally: session.close(); line 132: async with closes the
\* session on the way out
Close ==
    /\ s_pc = "close"
    /\ s_calls' = Append(s_calls, "close")
    /\ s_pc' = "exit"
    /\ UNCHANGED <<api, pair, conc, loader, search, s_kind, s_exc, s_raised>>

SessionNext ==
    \/ OpenSession
    \/ BodyExecutes
    \/ BodyReturns
    \/ BodyRaises
    \/ Commit
    \/ CommitRaises
    \/ CatchException
    \/ PassException
    \/ Rollback
    \/ RollbackRaises
    \/ Close

SessionSpec == SessionInit /\ [][SessionNext]_vars

\* the number of calls of a method of the session
CallCount(name) == Cardinality({i \in 1..Len(s_calls) : s_calls[i] = name})
\* the body raised
BodyRaised == \E i \in 1..Len(s_raised) : s_raised[i].by = "body"
\* no commit comes after a rollback
NoCommitAfterRollback ==
    \A i, j \in 1..Len(s_calls) :
        s_calls[i] = "rollback" /\ s_calls[j] = "commit" => j < i
\* the session was closed once, as the last call made on it
ClosedOnceAtTheEnd ==
    /\ CallCount("close") = 1
    /\ s_calls[Len(s_calls)] = "close"

\* C25 (as claimed): when the context is left, commit was attempted exactly
\* when the body did not raise; if the body or the commit raised, rollback
\* was called and the exception that leaves is the one that was raised;
\* commit never follows rollback; the session was closed exactly once,
\* after the commit or rollback.
C25_AnyRaiseRollsBackAndReraises ==
    /\ NoCommitAfterRollback
    /\ s_pc = "exit" =>
           /\ CallCount("commit") >= 1 <=> ~BodyRaised
           /\ s_raised # <<>> =>
                  CallCount("rollback") >= 1 /\ s_exc = s_raised[1].exc
           /\ ClosedOnceAtTheEnd

\* C25 (amended): commit is attempted exactly when the body did not raise;
\* when the body or the commit raises a subclass of Exception, rollback is
\* called once and that exception leaves the context, unless rollback
\* raises, and then the exception of rollback leaves; an exception that is
\* no subclass of Exception leaves without a rollback; with no raise nothing
\* leaves and nothing is rolled back; commit never follows rollback; the
\* session is closed exactly once, as the last call.
C25_ExceptionRollsBackAndReraises ==
    /\ NoCommitAfterRollback
    /\ CallCount("close") <= 1
    /\ s_pc = "exit" =>
           /\ CallCount("commit") = (IF BodyRaised THEN 0 ELSE 1)
           /\ s_raised = <<>> => s_exc = "none" /\ CallCount("rollback") = 0
           /\ s_raised # <<>> =>
                  IF s_raised[1].exc \in BaseExceptionsOnly
                  THEN CallCount("rollback") = 0 /\ s_exc = s_raised[1].exc
                  ELSE /\ CallCount("rollback") = 1
                       /\ Len(s_raised) = 1 => s_exc = s_raised[1].exc
                       /\ Len(s_raised) > 1 =>
                              /\ s_raised[2].by = "rollback"
                              /\ s_exc = s_raised[2].exc
           /\ ClosedOnceAtTheEnd

\* the commit of an async session raised after the body had executed a
\* statement: rollback, close, and the commit's exception leaves
C25_Witness ==
    /\ s_kind = "async"
    /\ s_pc = "exit"
    /\ s_calls = <<"execute", "commit", "rollback", "close">>
    /\ s_exc = "OperationalError"

(***************************************************************************)
(* The HTTP search endpoints of api.py: search (lines 113-162) and         *)
(* search_get (lines 165-195), which builds a SearchRequest and awaits     *)
(* search.  One request is served, over a session of get_async_session.    *)
(***************************************************************************)
\* lines 46-47, 168-169: thresholds and limits that requests carry, in
\* units of 1/Scale
ApiThresholds == {0 - 45, 0, 5, Scale}
ApiLimits == {1, 4}
LimitMax == 100
ApiRoles == {None, Str(<<"user">>)}
Requests ==
    {[limit |-> l, threshold |-> t, role |-> r, conversation_id |-> None,
      metric |-> m] :
        l \in ApiLimits, t \in ApiThresholds, r \in ApiRoles,
        m \in Metrics \cup {"dot"}}
\* every request is let in
AcceptedAlways(r) == TRUE
\* lines 46-47, 168-169: ge=1, le=100; ge=0.0, le=1.0
Accepted(r) ==
    /\ 1 <= r.limit /\ r.limit <= LimitMax
    /\ 0 <= r.threshold /\ r.threshold <= Scale

ApiInit ==
    /\ LoaderIdle
    /\ method = "async"
    /\ first = None
    /\ ConcIdle
    /\ table \in Tables
    /\ request \in Requests
    /\ a_pc = "received"
    /\ a_result = None
    /\ response = None
    /\ s_kind = "async"
    /\ s_pc = "idle"
    /\ s_exc = "none"
    /\ s_calls = <<>>
    /\ s_raised = <<>>
    /\ args = None
    /\ query_embedding = None
    /\ spc = "idle"
    /\ cursor = {}
    /\ results = <<>>
    /\ returned = <<>>
    /\ search_error = "none"

\* lines 46-47, 168-169: a request outside the bounds is answered by the
\* framework and never reaches the handler
RejectRequest ==
    /\ a_pc = "received"
    /\ ~Accepted(request)
    /\ response' = [status |-> 422, detail |-> <<>>, results |-> None]
    /\ a_pc' = "done"
    /\ UNCHANGED <<loader, search, session, pair, conc, request, a_result>>

\* lines 123-126: searcher = get_vector_searcher(); async with
\* get_async_session() as session
GetVectorSearcher ==
    /\ a_pc = "received"
    /\ Accepted(request)
    /\ a_pc' = "session"
    /\ s_pc' = "enter"
    /\ UNCHANGED <<loader, search, pair, conc, request, a_result, response,
                   s_kind, s_exc, s_calls, s_raised>>

\* lines 124, 161-162: VectorSearch() fails to load its model
GetVectorSearcherRaises ==
    /\ a_pc = "received"
    /\ Accepted(request)
    /\ response' = [status |-> 500, detail |-> <<"Search failed: ", "OSError">>,
                    results |-> None]
    /\ a_pc' = "done"
    /\ UNCHANGED <<loader, search, session, pair, conc, request, a_result>>

\* lines 127-135: await searcher.search_async(...)
CallSearchAsync ==
    /\ a_pc = "session"
    /\ s_pc = "body"
    /\ args' = Call(request.metric, request.threshold, request.limit,
                    [role_filter |-> request.role,
                     conversation_id_filter |-> request.conversation_id])
    /\ spc' = "called"
    /\ a_pc' = "search"
    /\ UNCHANGED <<loader, session, pair, conc, request, a_result, response,
                   table, query_embedding, cursor, results, returned,
                   search_error>>

\* lines 137-159: the list is converted and SearchResponse is returned from
\* inside the with block
BuildResponse ==
    /\ a_pc = "search"
    /\ spc = "returned"
    /\ a_result' =
           [status |-> 200,
            detail |-> <<>>,
            results |-> [k \in 1..Len(returned) |->
                            [message_id |-> returned[k].conv.message_id,
                             conversation_id |-> returned[k].conv.conversation_id,
                             role |-> returned[k].conv.role,
                             similarity |-> returned[k].similarity]],
            total |-> Len(returned),
            limit |-> request.limit,
            threshold |-> request.threshold]
    /\ s_pc' = "commit"
    /\ a_pc' = "leaving"
    /\ UNCHANGED <<loader, search, pair, conc, request, response, s_kind,
                   s_exc, s_calls, s_raised>>

\* lines 127, 134 of db.py: search_async raises inside the with block
SearchFails ==
    /\ a_pc = "search"
    /\ spc = "raised"
    /\ s_exc' = search_error
    /\ s_raised' = Append(s_raised, [by |-> "body", exc |-> search_error])
    /\ s_pc' = "thrown"
    /\ a_pc' = "leaving"
    /\ UNCHANGED <<loader, search, pair, conc, request, a_result, response,
                   s_kind, s_calls>>

\* line 153: the context was left without an exception and the response is
\* sent
Respond ==
    /\ a_pc = "leaving"
    /\ s_pc = "exit"
    /\ s_exc = "none"
    /\ response' = a_result
    /\ a_pc' = "done"
    /\ UNCHANGED <<loader, search, session, pair, conc, request, a_result>>

\* an exception that is answered with the list that was built
RespondFailureWithResults ==
    /\ a_pc = "leaving"
    /\ s_pc = "exit"
    /\ s_exc # "none"
    /\ response' = [status |-> 500, detail |-> <<"Search failed: ", s_exc>>,
                    results |-> a_result]
    /\ a_pc' = "done"
    /\ UNCHANGED <<loader, search, session, pair, conc, request, a_result>>

\* lines 161-162: raise HTTPException(status_code=500,
\* detail=f"Search failed: {str(e)}")
RespondFailure ==
    /\ a_pc = "leaving"
    /\ s_pc = "exit"
    /\ s_exc # "none"
    /\ response' = [status |-> 500, detail |-> <<"Search failed: ", s_exc>>,
                    results |-> None]
    /\ a_pc' = "done"
    /\ UNCHANGED <<loader, search, session, pair, conc, request, a_result>>

ApiNext ==
    \/ RejectRequest
    \/ GetVectorSearcher
    \/ GetVectorSearcherRaises
    \/ OpenSession
    \/ CallSearchAsync
    \/ EncodeQuery
    \/ EncodeQueryRaises
    \/ ExecuteQuery
    \/ ExecuteRaises
    \/ UnknownMetric
    \/ FetchRow
    \/ ReturnConversations
    \/ BuildResponse
    \/ SearchFails
    \/ Commit
    \/ CommitRaises
    \/ CatchException
    \/ Rollback
    \/ RollbackRaises
    \/ Close
    \/ Respond
    \/ RespondFailure

ApiSpec == ApiInit /\ [][ApiNext]_vars

\* C26: a request that the endpoints accept, with metric l2, is answered
\* with rows whose stored vector is at L2 distance 0 from the query vector.
C26_L2ThroughApiReturnsOnlyDistanceZero ==
    a_pc = "done" /\ response.status = 200 /\ request.metric = "l2" =>
        \A k \in 1..Len(returned) :
            /\ returned[k].conv.embedding # None
            /\ L2Distance(returned[k].conv.embedding.v, QueryVector) = 0

\* C28: a request that fails is answered with status 500 and a detail that
\* starts with "Search failed: ", without a list of results, after the
\* session it had opened was rolled back and closed and without a commit
\* that succeeded; a request whose search and commit succeed is answered
\* with status 200, a total equal to the number of results and at most the
\* limit of the request; a request is answered with status 500 exactly when
\* the searcher, the search or the commit raised.
C28_FailureIs500AfterRollback ==
    a_pc = "done" /\ Accepted(request) =>
        /\ response.status \in {200, 500}
        /\ response.status = 500 <=>
               \/ s_raised # <<>>
               \/ s_pc = "idle"
        /\ response.status = 500 =>
               /\ response.detail[1] = "Search failed: "
               /\ response.results = None
               /\ s_pc # "idle" =>
                      /\ s_pc = "exit"
                      /\ \E i \in 1..Len(s_calls) : s_calls[i] = "rollback"
                      /\ s_calls[Len(s_calls)] = "close"
               /\ args # None /\ args.distance_metric \notin Metrics =>
                      s_raised # <<>>
        /\ response.status = 200 =>
               /\ response.total = Len(response.results)
               /\ response.total <= request.limit
               /\ s_calls = <<"commit", "close">>

\* an unknown metric was answered with status 500 after a rollback
C28_Witness ==
    /\ a_pc = "done"
    /\ request.metric = "dot"
    /\ response.status = 500
    /\ response.detail = <<"Search failed: ", "ValueError">>
    /\ s_calls = <<"rollback", "close">>

(***************************************************************************)
(* search_sync followed by search_async (query.py lines 42-129, 131-214)   *)
(* with the same arguments over the same table, each called directly or    *)
(* through its convenience function (lines 217-251, 254-288).              *)
(***************************************************************************)
PairThresholds == {0 - 100, 5}
PairLimits == {1, 2}
PairCalls ==
    {Call(m, t, l, [role_filter |-> None, conversation_id_filter |-> None]) :
        m \in Metrics \cup {"dot"}, t \in PairThresholds, l \in PairLimits}
\* the convenience function without its threshold argument
PassedArgumentsNoThreshold(a) == [a EXCEPT !.similarity_threshold = 0]
\* lines 243-251, 280-288: searcher = VectorSearch(model_name=model_name);
\* return searcher.search_sync(session=session, query_text=query_text,
\* limit=limit, ...)
PassedArguments(a) ==
    [distance_metric |-> a.distance_metric,
     similarity_threshold |-> a.similarity_threshold,
     limit |-> a.limit,
     role_filter |-> a.role_filter,
     conversation_id_filter |-> a.conversation_id_filter]

PairInit ==
    /\ LoaderIdle
    /\ SessionIdle
    /\ ApiIdle
    /\ ConcIdle
    /\ table \in Tables
    /\ args \in PairCalls
    /\ method = "sync"
    /\ first = None
    /\ query_embedding = None
    /\ spc = "idle"
    /\ cursor = {}
    /\ results = <<>>
    /\ returned = <<>>
    /\ search_error = "none"

\* lines 42-51: search_sync is called
CallSearchSync ==
    /\ method = "sync"
    /\ spc = "idle"
    /\ spc' = "called"
    /\ UNCHANGED <<loader, session, api, conc, pair, table, args,
                   query_embedding, cursor, results, returned, search_error>>

\* lines 217-251: search_conversations_sync is called
CallSearchConversationsSync ==
    /\ method = "sync"
    /\ spc = "idle"
    /\ args' = PassedArguments(args)
    /\ spc' = "called"
    /\ UNCHANGED <<loader, session, api, conc, pair, table, query_embedding,
                   cursor, results, returned, search_error>>

\* search_sync has ended; its outcome is kept
Outcome ==
    [args |-> args, rows |-> results, returned |-> returned,
     error |-> search_error]

\* lines 131-140: search_async is called with the arguments search_sync had
CallSearchAsyncNext ==
    /\ method = "sync"
    /\ spc \in {"returned", "raised"}
    /\ first' = Outcome
    /\ method' = "async"
    /\ spc' = "called"
    /\ query_embedding' = None
    /\ cursor' = {}
    /\ results' = <<>>
    /\ returned' = <<>>
    /\ search_error' = "none"
    /\ UNCHANGED <<loader, session, api, conc, table, args>>

\* lines 254-288: search_conversations_async is called with them
CallSearchConversationsAsync ==
    /\ method = "sync"
    /\ spc \in {"returned", "raised"}
    /\ first' = Outcome
    /\ method' = "async"
    /\ args' = PassedArguments(args)
    /\ spc' = "called"
    /\ query_embedding' = None
    /\ cursor' = {}
    /\ results' = <<>>
    /\ returned' = <<>>
    /\ search_error' = "none"
    /\ UNCHANGED <<loader, session, api, conc, table>>

PairNext ==
    \/ CallSearchSync
    \/ CallSearchConversationsSync
    \/ CallSearchAsyncNext
    \/ CallSearchConversationsAsync
    \/ EncodeQuery
    \/ ExecuteQuery
    \/ UnknownMetric
    \/ FetchRow
    \/ ReturnConversations

PairSpec == PairInit /\ [][PairNext]_vars

\* both calls have ended
BothEnded == method = "async" /\ spc \in {"returned", "raised"}
\* no two rows of the statement have the same similarity
NoTies ==
    \A r, o \in Statement : r[3] = o[3] => r = o

\* C29 (as claimed): for one table and one set of arguments search_sync and
\* search_async return the same rows in the same order with the same
\* similarities, and end with the same error.
C29_SyncAndAsyncReturnTheSameList ==
    BothEnded =>
        /\ returned = first.returned
        /\ search_error = first.error

\* C29 (amended): both methods are called with the same arguments, through
\* the convenience functions as well; both end with ValueError for an
\* unknown metric; the rows the database hands to them are equally many and
\* carry the same similarities in the same order; when the rows are handed
\* over in the same order, as they are when no two rows of the statement
\* have equal similarity, the two lists are equal.
C29_SyncAndAsyncAgreeUpToTies ==
    BothEnded =>
        /\ args = first.args
        /\ search_error = first.error
        /\ args.distance_metric \notin Metrics <=> search_error = "ValueError"
        /\ Len(results) = Len(first.rows)
        /\ \A k \in 1..Len(results) :
               results[k].similarity = first.rows[k].similarity
        /\ results = first.rows => returned = first.returned
        /\ spc = "returned" /\ NoTies => returned = first.returned

\* both calls returned two rows with different similarities
C29_Witness ==
    /\ BothEnded
    /\ Len(returned) = 2
    /\ returned = first.returned
    /\ returned[1].similarity > returned[2].similarity
    /\ returned[1].row # returned[2].row

(***************************************************************************)
(* The module globals behind the HTTP endpoints: _vector_searcher (api.py  *)
(* lines 29-38), _async_engine and _AsyncSessionLocal (db.py lines 45-89). *)
(* The handlers are coroutines of one event loop: another request runs     *)
(* only while one is suspended at an await, and the getters have no await. *)
(* An instance is named by the number of its construction; 0 is None.      *)
(***************************************************************************)
RequestIds == 1..MaxRequests
Nothing == [searcher |-> 0, engine |-> 0, factory |-> 0]
\* a getter that constructs on every call
NeverCached(instance) == TRUE
\* api.py line 36, db.py lines 64 and 84: if ... is None
IsNone(instance) == instance = 0

ConcInit ==
    /\ LoaderIdle
    /\ SearchIdle
    /\ SessionIdle
    /\ ApiIdle
    /\ PairIdle
    /\ globals = Nothing
    /\ built = Nothing
    /\ r_pc = [r \in RequestIds |-> "start"]
    /\ r_got = [r \in RequestIds |-> Nothing]

\* api.py lines 124, 33-38: searcher = get_vector_searcher()
CallGetVectorSearcher(r) ==
    /\ r_pc[r] = "start"
    /\ LET made == IsNone(globals.searcher)
           instance == IF made THEN built.searcher + 1 ELSE globals.searcher
       IN  /\ built' = [built EXCEPT !.searcher = IF made THEN @ + 1 ELSE @]
           /\ globals' = [globals EXCEPT !.searcher = instance]
           /\ r_got' = [r_got EXCEPT ![r].searcher = instance]
    /\ r_pc' = [r_pc EXCEPT ![r] = "session"]
    /\ UNCHANGED <<loader, search, session, api, pair>>

\* api.py line 37: VectorSearch() raises; the global stays None
VectorSearchRaises(r) ==
    /\ r_pc[r] = "start"
    /\ IsNone(globals.searcher)
    /\ r_pc' = [r_pc EXCEPT ![r] = "failed"]
    /\ UNCHANGED <<loader, search, session, api, pair, globals, built, r_got>>

\* api.py line 126, db.py lines 131, 81-89, 61-69: get_async_session calls
\* get_async_session_factory, which calls get_async_engine when it has no
\* factory yet; then the session is made and the coroutine is suspended at
\* its first await (query.py line 203)
CallGetAsyncSessionFactory(r) ==
    /\ r_pc[r] = "session"
    /\ LET made == IsNone(globals.factory)
           made_engine == made /\ IsNone(globals.engine)
           engine == IF made_engine THEN built.engine + 1 ELSE globals.engine
           factory == IF made THEN built.factory + 1 ELSE globals.factory
       IN  /\ built' = [built EXCEPT
                           !.engine = IF made_engine THEN @ + 1 ELSE @,
                           !.factory = IF made THEN @ + 1 ELSE @]
           /\ globals' = [globals EXCEPT !.engine = engine, !.factory = factory]
           /\ r_got' = [r_got EXCEPT
                           ![r].engine = IF made THEN engine ELSE @,
                           ![r].factory = factory]
    /\ r_pc' = [r_pc EXCEPT ![r] = "execute"]
    /\ UNCHANGED <<loader, search, session, api, pair>>

\* db.py lines 65-66: get_database_url or create_async_engine raises; both
\* globals stay None
CreateEngineRaises(r) ==
    /\ r_pc[r] = "session"
    /\ IsNone(globals.factory)
    /\ IsNone(globals.engine)
    /\ r_pc' = [r_pc EXCEPT ![r] = "failed"]
    /\ UNCHANGED <<loader, search, session, api, pair, globals, built, r_got>>

\* query.py line 203: await session.execute(main_query) is resumed
ResumeExecute(r) ==
    /\ r_pc[r] = "execute"
    /\ r_pc' = [r_pc EXCEPT ![r] = "commit"]
    /\ UNCHANGED <<loader, search, session, api, pair, globals, built, r_got>>

\* db.py line 135: await session.commit() is resumed; the response follows
ResumeCommit(r) ==
    /\ r_pc[r] = "commit"
    /\ r_pc' = [r_pc EXCEPT ![r] = "done"]
    /\ UNCHANGED <<loader, search, session, api, pair, globals, built, r_got>>

ConcNext ==
    \/ \E r \in RequestIds : CallGetVectorSearcher(r)
    \/ \E r \in RequestIds : VectorSearchRaises(r)
    \/ \E r \in RequestIds : CallGetAsyncSessionFactory(r)
    \/ \E r \in RequestIds : CreateEngineRaises(r)
    \/ \E r \in RequestIds : ResumeExecute(r)
    \/ \E r \in RequestIds : ResumeCommit(r)

ConcSpec == ConcInit /\ [][ConcNext]_vars

\* C30: however the requests interleave, at most one VectorSearch, one async
\* engine and one async session factory are constructed, and every call of
\* a getter returns the first instance that was constructed.
C30_SingletonsConstructedOnce ==
    /\ built.searcher <= 1 /\ built.engine <= 1 /\ built.factory <= 1
    /\ \A k \in DOMAIN globals : globals[k] = built[k]
    /\ \A r \in RequestIds :
           /\ r_got[r].searcher \in {0, 1}
           /\ r_got[r].engine \in {0, 1}
           /\ r_got[r].factory \in {0, 1}
           /\ r_pc[r] \in {"session", "execute", "commit", "done"} =>
                  r_got[r].searcher = 1
           /\ r_pc[r] \in {"execute", "commit", "done"} =>
                  r_got[r].factory = 1

\* two requests are suspended at the same time, holding the same instances,
\* after the first attempt to construct the searcher had failed
C30_Witness ==
    /\ \E f \in RequestIds : r_pc[f] = "failed" /\ r_got[f] = Nothing
    /\ \E r, o \in RequestIds :
           /\ r # o
           /\ r_pc[r] = "execute" /\ r_pc[o] = "execute"
           /\ r_got[r] # Nothing
           /\ r_got[r].searcher = r_got[o].searcher
           /\ r_got[r].factory = r_got[o].factory
    /\ built = [searcher |-> 1, engine |-> 1, factory |-> 1]
====
